---- MODULE Spec2Model ----
(***************************************************************************)
(* OptySys front-end: the login page (form data, inline error, submit      *)
(* handler with its asynchronous login call), the session store and the    *)
(* access-token normalisation.                                             *)
(*                                                                         *)
(* A JavaScript string is a sequence of one-character strings.  A value    *)
(* that is not a string (undefined, absent) is a one-element sequence      *)
(* whose element is a word, which no string of characters equals.          *)
(***************************************************************************)
EXTENDS Integers, Sequences, FiniteSets, TLC

VARIABLES formData, error, calls, log, user, accessToken, token, normalized

vars == <<formData, error, calls, log, user, accessToken, token, normalized>>

(* ------------------------------ bounds -------------------------------- *)

\* submit triggers per mounted login form
MaxSubmits == 2

\* length of the tokens handed to the normalisation and to the store
MaxTokenLen == 4

\* identities the backend can hand out
MaxUsers == 2

(* ------------------------------ values -------------------------------- *)

Undefined == <<"undefined">>

Absent == <<"absent">>

Null == "null"

Quote == "\""

BobExample == <<"b","o","b","@","e","x","a","m","p","l","e">>

BobExampleCom == <<"b","o","b","@","e","x","a","m","p","l","e",".","c","o","m">>

Abc == <<"a","b","c">>

Abcdef == <<"a","b","c","d","e","f">>

QuotedAbc123 == <<Quote,"a","b","c","1","2","3",Quote>>

Abc123 == <<"a","b","c","1","2","3">>

\* what the user can type into the email input
EmailValues == { <<>>, <<"b","o","b">>, BobExample, BobExampleCom }

\* what the user can type into the password input
PasswordValues == { <<>>, Abc, Abcdef }

TokenChars == { Quote, "a", "b" }

RECURSIVE SeqsUpTo(_, _)
SeqsUpTo(S, n) ==
  IF n = 0 THEN { <<>> }
  ELSE LET shorter == SeqsUpTo(S, n - 1)
       IN  shorter \cup { Append(s, c) : s \in shorter, c \in S }

Tokens == SeqsUpTo(TokenChars, MaxTokenLen) \cup { QuotedAbc123 }

\* tokens other components store while the login form is mounted
SessionTokens == { <<Quote, "a", Quote>> }

NoUser == [id |-> 0, isActivated |-> FALSE]

Users == [id : 1..MaxUsers, isActivated : BOOLEAN]

SessionUsers == { [id |-> 1, isActivated |-> TRUE] }

(* ------------------------- validation module -------------------------- *)

MinPasswordLength == 6

MsgEmailRequired == "Email is required."

MsgEmailShape == "Enter a valid email address."

MsgPasswordRequired == "Password is required."

MsgPasswordLength == "Password must be at least 6 characters."

\* local-part@domain with at least one dot in the domain
IsEmailShape(s) ==
  \E i \in 1..Len(s) :
    /\ s[i] = "@"
    /\ i > 1
    /\ \A j \in 1..Len(s) : j # i => s[j] # "@"
    /\ \E d \in (i + 2)..(Len(s) - 1) : s[d] = "."

\* first failing rule, in fixed order; Null when every rule passes
getLoginFormErrors(email, password) ==
  IF email = Undefined \/ email = <<>> THEN MsgEmailRequired
  ELSE IF ~IsEmailShape(email) THEN MsgEmailShape
  ELSE IF password = Undefined \/ password = <<>> THEN MsgPasswordRequired
  ELSE IF Len(password) < MinPasswordLength THEN MsgPasswordLength
  ELSE Null

(* ---------------------- access-token normalisation --------------------- *)

\* token.replace(/"/, ""): only the first quote is removed
RECURSIVE normalizeFirstOnly(_)
normalizeFirstOnly(t) ==
  IF t = <<>> THEN <<>>
  ELSE IF Head(t) = Quote THEN Tail(t)
  ELSE <<Head(t)>> \o normalizeFirstOnly(Tail(t))

\* token.replace(/"/g, ""): scan left to right, drop every match
RECURSIVE normalizeAccessToken(_)
normalizeAccessToken(t) ==
  IF t = <<>> THEN <<>>
  ELSE IF Head(t) = Quote THEN normalizeAccessToken(Tail(t))
  ELSE <<Head(t)>> \o normalizeAccessToken(Tail(t))

(* ---------------------------- session store --------------------------- *)

setUser(u) ==
  /\ user' = u
  /\ UNCHANGED <<formData, error, calls, log, accessToken, token, normalized>>

setAccessToken(t) ==
  /\ accessToken' = normalizeAccessToken(t)
  /\ UNCHANGED <<formData, error, calls, log, user, token, normalized>>

getActivationStatus == user # NoUser /\ user.isActivated

logoutUser ==
  /\ user' = NoUser
  /\ accessToken' = Absent
  /\ UNCHANGED <<formData, error, calls, log, token, normalized>>

(* ------------------------------ login page ---------------------------- *)

\* JavaScript truthiness of a string-or-null message
Truthy(message) == message # Null /\ message # ""

\* JavaScript ! on the showPassword entry of formData
JsNot(v) == IF v = "true" THEN "false" ELSE "true"

ToastError(message) == [kind |-> "error", text |-> message, sub |-> 0]

ToastErrorOf(message, i) == [kind |-> "error", text |-> message, sub |-> i]

ToastSuccess(message, i) == [kind |-> "success", text |-> message, sub |-> i]

RouterPush(path, i) == [kind |-> "navigate", text |-> path, sub |-> i]

\* submit triggers handled so far: each one either raised a validation
\* notification or started a login call
Triggers == Len(calls) + Cardinality({ k \in DOMAIN log : log[k].sub = 0 })

Pending == { i \in DOMAIN calls : calls[i].status = "pending" }

\* onChange validating the stored values instead of the just-typed one
OnChangeStale(name, value) ==
  /\ formData' = [formData EXCEPT ![name] = value]
  /\ error' = getLoginFormErrors(formData.email, formData.password)
  /\ UNCHANGED <<calls, log, user, accessToken, token, normalized>>

\* onChange storing { [name]: value } without spreading the old formData
OnChangeNoSpread(name, value) ==
  /\ formData' = [[email |-> Undefined, password |-> Undefined,
                   showPassword |-> "undefined"] EXCEPT ![name] = value]
  /\ LET email == IF name = "email" THEN value ELSE formData.email
         password == IF name = "password" THEN value ELSE formData.password
     IN  error' = getLoginFormErrors(email, password)
  /\ UNCHANGED <<calls, log, user, accessToken, token, normalized>>

onChange(name, value) ==
  /\ formData' = [formData EXCEPT ![name] = value]
  /\ LET email == CASE name = "email" -> value
                    [] name = "password" -> formData.email
                    [] OTHER -> formData.email
         password == CASE name = "email" -> formData.password
                       [] name = "password" -> value
                       [] OTHER -> formData.password
     IN  error' = getLoginFormErrors(email, password)
  /\ UNCHANGED <<calls, log, user, accessToken, token, normalized>>

\* onSubmit without the return after toast.error
OnSubmitNoReturn ==
  /\ Triggers < MaxSubmits
  /\ LET errorMessage == getLoginFormErrors(formData.email, formData.password)
     IN  /\ log' = IF Truthy(errorMessage)
                   THEN Append(log, ToastError(errorMessage)) ELSE log
         /\ calls' = Append(calls, [payload |-> formData, status |-> "pending"])
  /\ UNCHANGED <<formData, error, user, accessToken, token, normalized>>

\* onSubmit up to the await: validate, then either notify and return or
\* start the login call
onSubmit ==
  /\ Triggers < MaxSubmits
  /\ LET errorMessage == getLoginFormErrors(formData.email, formData.password)
     IN  IF Truthy(errorMessage)
         THEN /\ log' = Append(log, ToastError(errorMessage))
              /\ UNCHANGED calls
         ELSE /\ calls' = Append(calls, [payload |-> formData, status |-> "pending"])
              /\ UNCHANGED log
  /\ UNCHANGED <<formData, error, user, accessToken, token, normalized>>

\* router.push before toast.success
LoginResolvesPushFirst(i) ==
  /\ i \in Pending
  /\ calls' = [calls EXCEPT ![i].status = "resolved"]
  /\ log' = log \o << RouterPush("/dashboard", i),
                      ToastSuccess("Successfully logged in.", i) >>
  /\ UNCHANGED <<formData, error, user, accessToken, token, normalized>>

\* onSubmit after the await, the login call fulfilled
LoginResolves(i) ==
  /\ i \in Pending
  /\ calls' = [calls EXCEPT ![i].status = "resolved"]
  /\ log' = log \o << ToastSuccess("Successfully logged in.", i),
                      RouterPush("/dashboard", i) >>
  /\ UNCHANGED <<formData, error, user, accessToken, token, normalized>>

\* the login call not awaited: the try block runs on although it rejects
LoginRejectsNotAwaited(i) ==
  /\ i \in Pending
  /\ calls' = [calls EXCEPT ![i].status = "rejected"]
  /\ log' = log \o << ToastSuccess("Successfully logged in.", i),
                      RouterPush("/dashboard", i) >>
  /\ UNCHANGED <<formData, error, user, accessToken, token, normalized>>

\* onSubmit after the await, the login call rejected: the catch block
LoginRejects(i) ==
  /\ i \in Pending
  /\ calls' = [calls EXCEPT ![i].status = "rejected"]
  /\ log' = Append(log, ToastErrorOf("Invalid credentials.", i))
  /\ UNCHANGED <<formData, error, user, accessToken, token, normalized>>

\* the toggle re-running the validation
SetShowPasswordRevalidates(name) ==
  /\ formData' = [formData EXCEPT ![name] = JsNot(formData[name])]
  /\ error' = getLoginFormErrors(formData.email, formData.password)
  /\ UNCHANGED <<calls, log, user, accessToken, token, normalized>>

setShowPassword(name) ==
  /\ formData' = [formData EXCEPT ![name] = JsNot(formData[name])]
  /\ UNCHANGED <<error, calls, log, user, accessToken, token, normalized>>

(* ----------------------------- specifications ------------------------- *)

InitForm ==
  /\ formData = [email |-> Undefined, password |-> Undefined,
                 showPassword |-> "undefined"]
  /\ error = Null
  /\ calls = <<>>
  /\ log = <<>>

InitStore ==
  /\ user = NoUser
  /\ accessToken = Absent

\* the login page mounted, the session store written by the rest of the app
Init ==
  /\ InitForm
  /\ InitStore
  /\ token = <<>>
  /\ normalized = Absent

Next ==
  \/ \E value \in EmailValues : onChange("email", value)
  \/ \E value \in PasswordValues : onChange("password", value)
  \/ setShowPassword("showPassword")
  \/ onSubmit
  \/ \E i \in DOMAIN calls : LoginResolves(i)
  \/ \E i \in DOMAIN calls : LoginRejects(i)
  \/ \E u \in SessionUsers : setUser(u)
  \/ \E t \in SessionTokens : setAccessToken(t)
  \/ logoutUser

Spec == Init /\ [][Next]_vars

\* the session store alone, under every token and user
NextStore ==
  \/ \E u \in Users : setUser(u)
  \/ \E t \in Tokens : setAccessToken(t)
  \/ logoutUser

SpecStore == Init /\ [][NextStore]_vars

\* the normalisation alone, applied once to each token
InitNormalize ==
  /\ InitForm
  /\ InitStore
  /\ token \in Tokens
  /\ normalized = Absent

Normalize ==
  /\ normalized = Absent
  /\ normalized' = normalizeAccessToken(token)
  /\ UNCHANGED <<formData, error, calls, log, user, accessToken, token>>

NextNormalize == Normalize

SpecNormalize == InitNormalize /\ [][NextNormalize]_vars

(* -------------------------------- claims ------------------------------ *)

ValidationMessages ==
  { MsgEmailRequired, MsgEmailShape, MsgPasswordRequired, MsgPasswordLength }

FieldChange ==
  \/ \E value \in EmailValues : onChange("email", value)
  \/ \E value \in PasswordValues : onChange("password", value)

\* the entries of a log that belong to login call i
EntriesOf(l, i) == { k \in DOMAIN l : l[k].sub = i }

\* C1: a submit trigger whose submission-gate validation returns an error
\* starts no login call for that trigger: the only effect is one error
\* notification carrying the validation message; nothing is navigated, the
\* handler has returned (no call of its own is pending), and so no login
\* call ever carries a payload the validation rejects.
C1_ValidationGate ==
  [][ /\ (onSubmit /\ Truthy(getLoginFormErrors(formData.email, formData.password)))
         => /\ calls' = calls
            /\ log' = Append(log, ToastError(getLoginFormErrors(formData.email,
                                                                formData.password)))
            /\ formData' = formData
      /\ \A i \in DOMAIN calls' :
           getLoginFormErrors(calls'[i].payload.email, calls'[i].payload.password) = Null
      /\ \A k \in DOMAIN log' :
           log'[k].sub = 0 => log'[k].kind = "error" /\ log'[k].text \in ValidationMessages
    ]_vars

C1_Witness ==
  /\ calls = <<>>
  /\ \E k \in DOMAIN log : log[k] = ToastError(MsgPasswordLength)
  /\ formData.email = BobExampleCom
  /\ formData.password = Abc

\* C2: at most one login call is outstanding at any time.
C2_AtMostOneOutstanding == Cardinality(Pending) <= 1

\* C3: when the login call of a submission rejects, the "Invalid
\* credentials." error notification is the one and only entry raised for that
\* submission (no success notification, no navigation), the rejection leaves
\* the session store, the field values and the inline error as they were,
\* and the submission is no longer pending.
C3_RejectionHandling ==
  [][ /\ \A i \in DOMAIN calls' :
           calls'[i].status = "rejected"
             => /\ Cardinality(EntriesOf(log', i)) = 1
                /\ \A k \in EntriesOf(log', i) :
                     log'[k] = ToastErrorOf("Invalid credentials.", i)
      /\ \A i \in DOMAIN calls :
           LoginRejects(i)
             => /\ user' = user
                /\ accessToken' = accessToken
                /\ formData' = formData
                /\ error' = error
                /\ Pending' = Pending \ {i}
    ]_vars

C3_Witness ==
  /\ \E i \in DOMAIN calls :
       /\ calls[i].status = "rejected"
       /\ calls[i].payload.email = BobExampleCom
       /\ \E k \in DOMAIN log : log[k] = ToastErrorOf("Invalid credentials.", i)
  /\ formData.email = BobExampleCom
  /\ formData.password = Abcdef
  /\ user # NoUser
  /\ accessToken = <<"a">>

\* C4: whenever navigation is requested, the session store's user and access
\* token have both been set.
C4_CommitPrecedesNavigation ==
  [][ (\E k \in DOMAIN log' : k > Len(log) /\ log'[k].kind = "navigate")
        => (user' # NoUser /\ accessToken' # Absent) ]_vars

\* C5 as stated: in every reachable state, the initial one included, a null
\* inline error means the submission-gate validation does not reject.
C5_NoErrorNoRejection ==
  error = Null => ~Truthy(getLoginFormErrors(formData.email, formData.password))

\* C5 as amended: in every state reached after at least one field change
\* (a field holds a typed value), the inline error is exactly what the
\* submission-gate validation returns, so a null inline error means the
\* submit is not rejected.
C5_InlineMatchesGate ==
  (formData.email # Undefined \/ formData.password # Undefined)
    => error = getLoginFormErrors(formData.email, formData.password)

C5_Witness ==
  /\ formData.email = BobExampleCom
  /\ formData.password = Abcdef
  /\ formData.showPassword = "true"
  /\ error = Null
  /\ calls # <<>>

\* C6: toggling password visibility changes the showPassword flag only: the
\* email, the password, the inline error, the notifications, the login calls
\* and the session store are left as they were.
C6_ToggleFrame ==
  [][ setShowPassword("showPassword")
        => /\ formData'.showPassword = JsNot(formData.showPassword)
           /\ formData'.email = formData.email
           /\ formData'.password = formData.password
           /\ error' = error
           /\ log' = log
           /\ calls' = calls
           /\ user' = user
           /\ accessToken' = accessToken ]_vars

C6_Witness ==
  /\ formData.showPassword = "false"
  /\ formData.email = BobExampleCom
  /\ formData.password = Abc
  /\ error = MsgPasswordLength

\* C7: after every field change the inline error is the login validation of
\* the field values as they are after the change; "bob@example" with "abc"
\* shows the email-shape message, "bob@example.com" with "abc" the
\* password-length message, "bob@example.com" with "abcdef" no message.
C7_IncrementalValidation ==
  [][ FieldChange
        => /\ error' = getLoginFormErrors(formData'.email, formData'.password)
           /\ (formData'.email = BobExample /\ formData'.password = Abc
                 => error' = MsgEmailShape)
           /\ (formData'.email = BobExampleCom /\ formData'.password = Abc
                 => error' = MsgPasswordLength)
           /\ (formData'.email = BobExampleCom /\ formData'.password = Abcdef
                 => error' = Null) ]_vars

C7_Witness ==
  /\ formData.email = BobExampleCom
  /\ formData.password = Abc
  /\ error = MsgPasswordLength
  /\ formData.showPassword = "undefined"

\* C8: the stored access token is absent or a non-empty string.
C8_NeverEmpty == accessToken = Absent \/ Len(accessToken) > 0

\* the token without its leading and its trailing quote characters
RECURSIVE StripLeading(_)
StripLeading(t) ==
  IF t # <<>> /\ Head(t) = Quote THEN StripLeading(Tail(t)) ELSE t

RECURSIVE StripTrailing(_)
StripTrailing(t) ==
  IF t # <<>> /\ t[Len(t)] = Quote
  THEN StripTrailing(SubSeq(t, 1, Len(t) - 1)) ELSE t

StripWrapping(t) == StripTrailing(StripLeading(t))

NotQuote(c) == c # Quote

\* C9 as stated: the normalised token is the token without its leading and
\* trailing quote characters, every other character kept.
C9_StripsWrapping ==
  normalized # Absent => normalized = StripWrapping(token)

\* C9 as amended: the normalised token is the token without any of its quote
\* characters, leading, trailing or interior, every other character kept in
\* order; '"abc123"' becomes abc123.
C9_StripsEveryQuote ==
  normalized # Absent
    => /\ normalized = SelectSeq(token, NotQuote)
       /\ (token = QuotedAbc123 => normalized = Abc123)

C9_Witness ==
  /\ token = QuotedAbc123
  /\ normalized = Abc123

\* C10: every navigation request goes to the dashboard, belongs to a login
\* call that fulfilled and whose payload passes the validation, and comes
\* right after the success notification of the same call; a call that
\* rejected and a submit that failed the validation have none.
C10_NavigationOnlyAfterSuccess ==
  \A k \in DOMAIN log :
    log[k].kind = "navigate"
      => /\ log[k].text = "/dashboard"
         /\ log[k].sub \in DOMAIN calls
         /\ calls[log[k].sub].status = "resolved"
         /\ getLoginFormErrors(calls[log[k].sub].payload.email,
                               calls[log[k].sub].payload.password) = Null
         /\ k > 1
         /\ log[k - 1] = ToastSuccess("Successfully logged in.", log[k].sub)

C10_Witness ==
  /\ \E k \in DOMAIN log : log[k].kind = "navigate"
  /\ \E i \in DOMAIN calls : calls[i].status = "rejected"

====
